---- MODULE Spec2Model ----
(***************************************************************************)
(* LocalVideoProcessor (backend/director/tools/local_video_processor.py):  *)
(* the local ingestion and indexing pipeline.  The state is the SQLite     *)
(* index (tables videos, transcripts, scenes), the files under the storage *)
(* root (videos/, frames/, transcripts/) and the record of the last call.  *)
(* A table is the sequence of its rows in rowid order.  A directory is a   *)
(* function from the names of the files present to their contents.         *)
(***************************************************************************)
EXTENDS Integers, Sequences, FiniteSets, TLC

VARIABLES
    storage,        \* the directories and the index file that exist
    whisper_model,  \* self.whisper_model: TRUE when load_model succeeded
    videos,         \* table videos
    transcripts,    \* table transcripts
    scenes,         \* table scenes
    vfiles,         \* directory videos/ : video id -> content of <id>.mp4
    frames,         \* directory frames/ : <<video id, scene>> -> image
    artifacts,      \* directory transcripts/ : video id -> raw engine result
    last,           \* the last call of the processor and what it returned
    conn,           \* the open sqlite3 connections of in-flight replaces
    lock,           \* the connection holding the database write lock, or 0
    reader          \* what the last SELECT of a concurrent reader returned

vars == <<storage, whisper_model, videos, transcripts, scenes, vfiles, frames,
          artifacts, last, conn, lock, reader>>

----------------------------------------------------------------------------
(* Bounds *)

\* longest segment list the speech engine returns
MaxSegs == 2
\* length of the timeline the detector cuts into scenes (most scenes found)
MaxScenes == 2
\* largest clock reading, in seconds
MaxClock == 1

----------------------------------------------------------------------------
(* Inputs *)

\* video_id = None
None == "None"
\* the value None of a result
Nothing == <<>>

\* A source path is its directory and its final component <<stem, suffix>>.
PathA == <<"in", <<"clip", ".mov">> >>
PathB == <<"alt", <<"clip", ".avi">> >>
PathMissing == <<"in", <<"gone", ".mov">> >>
Paths == {PathA, PathB, PathMissing}

\* What the files of the caller hold: 0 when there is no such file.
SourceContent(path) ==
    IF path = PathA THEN 1 ELSE IF path = PathB THEN 2 ELSE 0

\* content of a normalized file that ffmpeg left half written
Partial == 3

\* What cv2.VideoCapture reports of a normalized file, by content.
Media(content) ==
    IF content = 1 THEN [fps |-> 25, frame_count |-> 100, width |-> 640, height |-> 480]
    ELSE IF content = 2 THEN [fps |-> 0, frame_count |-> 30, width |-> 320, height |-> 240]
    ELSE [fps |-> 0, frame_count |-> 0, width |-> 0, height |-> 0]

----------------------------------------------------------------------------
(* Files *)

Put(dir, name, content) ==
    [n \in DOMAIN dir \cup {name} |-> IF n = name THEN content ELSE dir[n]]

Exists(dir, name) == name \in DOMAIN dir

\* Path(video_path).stem
Stem(path) == path[Len(path)][1]

\* Path(video_path).name of videos/<id>.mp4
Mp4Name(video_id) == <<video_id, ".mp4">>

\* Path(video_path).stem + "_" + str(int(datetime.now().timestamp()))
GenId(path, now) == Stem(path) \o "_" \o ToString(now)

----------------------------------------------------------------------------
(* LocalVideoProcessor(storage_path) *)

Subdirectories == {"videos", "frames", "transcripts", "scenes"}

\* what the constructor leaves in existence: the root, its four
\* subdirectories and the index file
Storage == {"storage_path", "video_index.db"} \cup Subdirectories

\* path.mkdir(exist_ok=True): a directory that exists is left as it is
mkdir(existing, path) == existing \cup {path}

\* DROP TABLE and CREATE TABLE on every start
_init_database_anew(existing, tables) ==
    [existing |-> existing \cup {"video_index.db"},
     tables   |-> [videos |-> <<>>, transcripts |-> <<>>, scenes |-> <<>>]]

\* connect() creates the file when there is none; CREATE TABLE IF NOT EXISTS
\* keeps a table that exists, with its rows.
_init_database(existing, tables) ==
    [existing |-> existing \cup {"video_index.db"},
     tables   |-> IF "video_index.db" \in existing THEN tables
                  ELSE [videos |-> <<>>, transcripts |-> <<>>, scenes |-> <<>>]]

\* loaded is whether whisper.load_model("base") returned
__init__(existing, tables, loaded) ==
    LET dirs == mkdir(mkdir(mkdir(mkdir(mkdir(existing, "storage_path"),
                    "videos"), "frames"), "transcripts"), "scenes")
        db   == _init_database(dirs, tables)
    IN  [storage |-> db.existing, whisper_model |-> loaded,
         tables |-> db.tables]

----------------------------------------------------------------------------
(* SQL statements, on a table held as the sequence of its rows *)

\* DELETE FROM <table>, the WHERE clause left out
DeleteAll(table, video_id) == <<>>

\* DELETE FROM <table> WHERE video_id = ?
DeleteWhere(table, video_id) ==
    SelectSeq(table, LAMBDA r : r.video_id # video_id)

\* SELECT ... FROM <table> WHERE video_id = ?   (rowid order)
RowsOf(table, video_id) ==
    SelectSeq(table, LAMBDA r : r.video_id = video_id)

\* INSERT INTO transcripts (video_id, start_time, end_time, text, confidence)
InsertSegment(table, video_id, segment) ==
    Append(table, [video_id   |-> video_id,
                   start_time |-> segment.start_time,
                   end_time   |-> segment.end_time,
                   text       |-> segment.text,
                   confidence |-> segment.confidence])

\* INSERT INTO scenes (video_id, scene_number, start_time, end_time, frame_path)
InsertScene(table, video_id, scene) ==
    Append(table, [video_id     |-> video_id,
                   scene_number |-> scene.scene_number,
                   start_time   |-> scene.start_time,
                   end_time     |-> scene.end_time,
                   frame_path   |-> scene.frame_path])

\* INSERT OR IGNORE: the row of an id already stored is kept.
InsertOrIgnore(table, row) ==
    IF SelectSeq(table, LAMBDA r : r.id = row.id) # <<>> THEN table
    ELSE Append(table, row)

\* INSERT OR REPLACE INTO videos: id is the PRIMARY KEY, so a row with the
\* same id is deleted before the new row is inserted.
InsertOrReplace(table, row) ==
    Append(SelectSeq(table, LAMBDA r : r.id # row.id), row)

\* SELECT ... FROM videos WHERE id = ? ; fetchone()
FetchVideo(table, video_id) ==
    LET found == SelectSeq(table, LAMBDA r : r.id = video_id)
    IN  IF found = <<>> THEN Nothing ELSE Head(found)

----------------------------------------------------------------------------
(* upload_video and its helpers *)

\* ffmpeg -i input -y output.  A missing input fails before the output is
\* opened; a failure during the transcode leaves a half-written output.
_convert_video(dir, input_path, video_id, fault) ==
    IF SourceContent(input_path) = 0 \/ fault = "convert"
        THEN [raised |-> TRUE, dir |-> dir]
    ELSE IF fault = "convert_partial"
        THEN [raised |-> TRUE, dir |-> Put(dir, video_id, Partial)]
    ELSE [raised |-> FALSE, dir |-> Put(dir, video_id, SourceContent(input_path))]

_get_video_info(dir, video_id) ==
    LET m == Media(dir[video_id])
    IN  [filename |-> Mp4Name(video_id),
         duration |-> IF m.fps > 0 THEN m.frame_count \div m.fps ELSE 0,
         fps      |-> m.fps,
         width    |-> m.width,
         height   |-> m.height]

_save_video_to_db(table, video_id, video_info) ==
    InsertOrReplace(table,
        [id       |-> video_id,
         filename |-> video_info.filename,
         duration |-> video_info.duration,
         fps      |-> video_info.fps,
         width    |-> video_info.width,
         height   |-> video_info.height])

get_video_info(table, video_id) ==
    LET row == FetchVideo(table, video_id)
    IN  IF row # Nothing
        THEN [id |-> video_id, filename |-> row.filename,
              duration |-> row.duration, fps |-> row.fps,
              width |-> row.width, height |-> row.height]
        ELSE Nothing

\* upload_video with the failure of the store arriving after the commit.
upload_video_late_failure(table, dir, video_path, video_id, now, fault) ==
    LET id   == IF video_id = None THEN GenId(video_path, now) ELSE video_id
        conv == _convert_video(dir, video_path, id, fault)
    IN  IF conv.raised
        THEN [videos |-> table, vfiles |-> conv.dir, success |-> FALSE,
              error |-> "CalledProcessError", video_id |-> id, data |-> Nothing]
        ELSE LET video_info == _get_video_info(conv.dir, id)
             IN  [videos |-> _save_video_to_db(table, id, video_info),
                  vfiles |-> conv.dir, success |-> fault # "store",
                  error |-> IF fault = "store" THEN "OperationalError" ELSE "",
                  video_id |-> id,
                  data |-> IF fault = "store" THEN Nothing ELSE video_info]

\* The state and the result upload_video leaves.  fault names the step at
\* which the environment makes a call fail ("none": no call fails).
upload_video(table, dir, video_path, video_id, now, fault) ==
    LET id   == IF video_id = None THEN GenId(video_path, now) ELSE video_id
        conv == _convert_video(dir, video_path, id, fault)
    IN  IF conv.raised
        THEN [videos |-> table, vfiles |-> conv.dir, success |-> FALSE,
              error |-> "CalledProcessError", video_id |-> id, data |-> Nothing]
        ELSE LET video_info == _get_video_info(conv.dir, id)
             IN  IF fault = "store"
                 THEN [videos |-> table, vfiles |-> conv.dir, success |-> FALSE,
                       error |-> "OperationalError", video_id |-> id, data |-> Nothing]
                 ELSE [videos |-> _save_video_to_db(table, id, video_info),
                       vfiles |-> conv.dir, success |-> TRUE, error |-> "",
                       video_id |-> id, data |-> video_info]

UploadFaults == {"none", "convert", "convert_partial", "store"}

----------------------------------------------------------------------------
(* transcribe_video and its helpers *)

\* The i-th segment the speech engine returns.  Start times do not ascend,
\* texts carry surrounding blanks, and every other segment has no
\* avg_logprob.
Segment(i) ==
    IF i % 2 = 1
    THEN [start |-> (3 * i) % 5, end |-> ((3 * i) % 5) + 1,
          text |-> <<" ", "a", "b", " ">>, avg_logprob |-> 0 - i]
    ELSE [start |-> (3 * i) % 5, end |-> ((3 * i) % 5) + 1,
          text |-> <<"A", " ">>]

\* A segment of no length that starts where segment i starts.
ZeroLength(i) ==
    [start |-> Segment(i).start, end |-> Segment(i).start,
     text |-> <<"b">>, avg_logprob |-> -9]

\* What whisper_model.transcribe may return: up to MaxSegs segments, or a
\* segment of no length followed by one with the same start time.
EngineResults ==
    { [segments |-> [i \in 1..n |-> Segment(i)], text |-> n] :
        n \in 0..MaxSegs }
    \cup {[segments |-> <<ZeroLength(1), Segment(1)>>, text |-> -1]}

Blank(c) == c = " "

RECURSIVE LStrip(_)
LStrip(t) == IF t # <<>> /\ Blank(Head(t)) THEN LStrip(Tail(t)) ELSE t

RECURSIVE RStrip(_)
RStrip(t) ==
    IF t # <<>> /\ Blank(t[Len(t)]) THEN RStrip(SubSeq(t, 1, Len(t) - 1)) ELSE t

\* str.strip()
Strip(t) == RStrip(LStrip(t))

\* the loop over result["segments"] that builds transcript_data
TranscriptData(result) ==
    [i \in 1..Len(result.segments) |->
        LET segment == result.segments[i]
        IN  [start_time |-> segment.start,
             end_time   |-> segment.end,
             text       |-> Strip(segment.text),
             confidence |-> IF "avg_logprob" \in DOMAIN segment
                            THEN segment.avg_logprob ELSE 0]]

RECURSIVE InsertSegments(_, _, _)
\* for segment in transcript_data: cursor.execute("INSERT INTO transcripts ...")
InsertSegments(table, video_id, transcript_data) ==
    IF transcript_data = <<>> THEN table
    ELSE InsertSegments(InsertSegment(table, video_id, Head(transcript_data)),
                        video_id, Tail(transcript_data))

\* the INSERTs without the DELETE
_save_transcript_to_db_append(table, video_id, transcript_data) ==
    InsertSegments(table, video_id, transcript_data)

\* DELETE, the INSERTs and commit() of one connection: one transaction.
_save_transcript_to_db(table, video_id, transcript_data) ==
    InsertSegments(DeleteWhere(table, video_id), video_id, transcript_data)

\* The scratch file exists as soon as NamedTemporaryFile returns; ffmpeg
\* fails when videos/<id>.mp4 is missing or when the environment says so.
_extract_audio(dir, video_id, fault) ==
    [raised |-> ~Exists(dir, video_id) \/ fault = "extract", audio |-> "left"]

TranscribeFailure(table, files, error, audio) ==
    [transcripts |-> table, artifacts |-> files, success |-> FALSE,
     error |-> error, audio |-> audio, data |-> Nothing]

\* transcribe_video without its first test: with no model loaded,
\* self.whisper_model.transcribe raises after the audio was extracted
transcribe_video_unguarded(model, table, files, dir, video_id, result, fault) ==
    LET ext == _extract_audio(dir, video_id, fault)
        transcript_data == TranscriptData(result)
        saved == _save_transcript_to_db(table, video_id, transcript_data)
    IN  IF ext.raised
            THEN TranscribeFailure(table, files, "CalledProcessError", ext.audio)
        ELSE IF ~model
            THEN TranscribeFailure(table, files, "AttributeError", ext.audio)
        ELSE IF fault = "engine"
            THEN TranscribeFailure(table, files, "RuntimeError", ext.audio)
        ELSE IF fault = "store"
            THEN TranscribeFailure(table, files, "OperationalError", ext.audio)
        ELSE IF fault = "artifact"
            THEN TranscribeFailure(saved, files, "OSError", ext.audio)
        ELSE [transcripts |-> saved,
              artifacts |-> Put(files, video_id, result),
              success |-> TRUE, error |-> "", audio |-> "removed",
              data |-> transcript_data]

transcribe_video(model, table, files, dir, video_id, result, fault) ==
    IF ~model
    THEN TranscribeFailure(table, files, "Whisper model not available", "none")
    ELSE LET ext == _extract_audio(dir, video_id, fault)
             transcript_data == TranscriptData(result)
             saved == _save_transcript_to_db(table, video_id, transcript_data)
         IN  IF ext.raised
                 THEN TranscribeFailure(table, files, "CalledProcessError", ext.audio)
             ELSE IF fault = "engine"
                 THEN TranscribeFailure(table, files, "RuntimeError", ext.audio)
             ELSE IF fault = "store"
                 THEN TranscribeFailure(table, files, "OperationalError", ext.audio)
             ELSE IF fault = "artifact"
                 THEN TranscribeFailure(saved, files, "OSError", ext.audio)
             ELSE [transcripts |-> saved,
                   artifacts |-> Put(files, video_id, result),
                   success |-> TRUE, error |-> "", audio |-> "removed",
                   data |-> transcript_data]

TranscribeFaults == {"none", "extract", "engine", "store", "artifact"}

----------------------------------------------------------------------------
(* detect_scenes and its helpers *)

RECURSIVE Ascending(_)
Ascending(S) ==
    IF S = {} THEN <<>>
    ELSE LET m == CHOOSE x \in S : \A y \in S : x <= y
         IN  <<m>> \o Ascending(S \ {m})

\* The scenes cut at the points of cuts out of the timeline 0..MaxScenes.
ScenesCutAt(cuts) ==
    LET b == <<0>> \o Ascending(cuts) \o <<MaxScenes>>
    IN  [i \in 1..(Len(b) - 1) |-> <<b[i], b[i + 1]>>]

\* What scene_manager.get_scene_list() may return, for any threshold: no scene
\* at all, or consecutive (start, end) pairs in seconds.
SceneLists ==
    {<<>>} \cup {ScenesCutAt(cuts) : cuts \in SUBSET (1..(MaxScenes - 1))}

\* frames/<video_id>_scene_<scene_num>.jpg
FramePath(video_id, scene_num) == <<video_id, scene_num>>

\* subprocess.run without check=True: a failed ffmpeg goes unnoticed.
_extract_keyframe_unchecked(files, dir, timestamp, video_id, scene_num, fails) ==
    [raised |-> FALSE,
     frames |-> IF fails THEN files
                ELSE Put(files, FramePath(video_id, scene_num),
                         [of |-> dir[video_id], at |-> timestamp]),
     frame_path |-> FramePath(video_id, scene_num)]

\* ffmpeg -i video -ss timestamp -vframes 1 -y frame: the image is the frame
\* of the normalized file at the timestamp.  check=True raises when ffmpeg
\* fails.
_extract_keyframe(files, dir, timestamp, video_id, scene_num, fails) ==
    IF fails
    THEN [raised |-> TRUE, frames |-> files, frame_path |-> Nothing]
    ELSE [raised |-> FALSE,
          frames |-> Put(files, FramePath(video_id, scene_num),
                         [of |-> dir[video_id], at |-> timestamp]),
          frame_path |-> FramePath(video_id, scene_num)]

RECURSIVE ExtractLoop(_, _, _, _, _, _, _)
\* for i, scene in enumerate(scene_list): from scene i on, with the scenes
\* gathered so far in scenes_data.  failing is the scene whose keyframe
\* extraction fails, or -1.
ExtractLoop(files, dir, video_id, scene_list, i, scenes_data, failing) ==
    IF i >= Len(scene_list)
    THEN [raised |-> FALSE, frames |-> files, scenes_data |-> scenes_data]
    ELSE LET start_time == scene_list[i + 1][1]
             end_time   == scene_list[i + 1][2]
             kf == _extract_keyframe(files, dir, start_time, video_id, i,
                                     i = failing)
         IN  IF kf.raised
             THEN [raised |-> TRUE, frames |-> kf.frames,
                   scenes_data |-> scenes_data]
             ELSE ExtractLoop(kf.frames, dir, video_id, scene_list, i + 1,
                      Append(scenes_data,
                          [scene_number |-> i, start_time |-> start_time,
                           end_time |-> end_time, frame_path |-> kf.frame_path]),
                      failing)

RECURSIVE InsertScenes(_, _, _)
\* for scene in scenes_data: cursor.execute("INSERT INTO scenes ...")
InsertScenes(table, video_id, scenes_data) ==
    IF scenes_data = <<>> THEN table
    ELSE InsertScenes(InsertScene(table, video_id, Head(scenes_data)),
                      video_id, Tail(scenes_data))

\* DELETE, the INSERTs and commit() of one connection: one transaction.
_save_scenes_to_db(table, video_id, scenes_data) ==
    InsertScenes(DeleteWhere(table, video_id), video_id, scenes_data)

DetectFailure(table, files, error) ==
    [scenes |-> table, frames |-> files, success |-> FALSE, error |-> error,
     data |-> Nothing]

\* detect_scenes with a loop that stops one scene short of the list
detect_scenes_one_short(table, files, dir, video_id, scene_list, fault, failing) ==
    IF ~Exists(dir, video_id) \/ fault = "detect"
    THEN DetectFailure(table, files, "VideoOpenFailure")
    ELSE LET short == SubSeq(scene_list, 1, Len(scene_list) - 1)
             loop == ExtractLoop(files, dir, video_id, short, 0, <<>>,
                                 IF fault = "keyframe" THEN failing ELSE -1)
         IN  IF loop.raised
                 THEN DetectFailure(table, loop.frames, "CalledProcessError")
             ELSE IF fault = "store"
                 THEN DetectFailure(table, loop.frames, "OperationalError")
             ELSE [scenes |-> _save_scenes_to_db(table, video_id, loop.scenes_data),
                   frames |-> loop.frames, success |-> TRUE, error |-> "",
                   data |-> loop.scenes_data]

\* fault = "keyframe" fails the extraction of the keyframe of scene failing.
detect_scenes(table, files, dir, video_id, scene_list, fault, failing) ==
    IF ~Exists(dir, video_id) \/ fault = "detect"
    THEN DetectFailure(table, files, "VideoOpenFailure")
    ELSE LET loop == ExtractLoop(files, dir, video_id, scene_list, 0, <<>>,
                                 IF fault = "keyframe" THEN failing ELSE -1)
         IN  IF loop.raised
                 THEN DetectFailure(table, loop.frames, "CalledProcessError")
             ELSE IF fault = "store"
                 THEN DetectFailure(table, loop.frames, "OperationalError")
             ELSE [scenes |-> _save_scenes_to_db(table, video_id, loop.scenes_data),
                   frames |-> loop.frames, success |-> TRUE, error |-> "",
                   data |-> loop.scenes_data]

DetectFaults == {"none", "detect", "keyframe", "store"}

----------------------------------------------------------------------------
(* search_transcript *)

\* LIKE folds the case of the ASCII letters only.
Fold(c) ==
    IF c = "A" THEN "a" ELSE IF c = "B" THEN "b" ELSE IF c = "Z" THEN "z" ELSE c

RECURSIVE LikeMatch(_, _)
\* text LIKE pattern: % stands for any run of characters, _ for any one.
LikeMatch(pattern, text) ==
    IF pattern = <<>> THEN text = <<>>
    ELSE IF Head(pattern) = "%"
        THEN \/ LikeMatch(Tail(pattern), text)
             \/ text # <<>> /\ LikeMatch(pattern, Tail(text))
    ELSE IF Head(pattern) = "_"
        THEN text # <<>> /\ LikeMatch(Tail(pattern), Tail(text))
    ELSE /\ text # <<>>
         /\ Fold(Head(pattern)) = Fold(Head(text))
         /\ LikeMatch(Tail(pattern), Tail(text))

RECURSIVE InsertByStart(_, _)
\* row put into a list ordered by start_time, after the rows that do not
\* start later
InsertByStart(sorted, row) ==
    IF sorted = <<>> THEN <<row>>
    ELSE IF Head(sorted).start_time <= row.start_time
        THEN <<Head(sorted)>> \o InsertByStart(Tail(sorted), row)
    ELSE <<row>> \o sorted

RECURSIVE OrderByStart(_)
\* ORDER BY start_time; rows with equal start times stay in rowid order
OrderByStart(rows) ==
    IF rows = <<>> THEN <<>>
    ELSE InsertByStart(OrderByStart(SubSeq(rows, 1, Len(rows) - 1)),
                       rows[Len(rows)])

\* the SELECT without ORDER BY: the hits in rowid order
search_transcript_unordered(table, video_id, query, fault) ==
    LET rows == SelectSeq(RowsOf(table, video_id),
                    LAMBDA r : LikeMatch(<<"%">> \o query \o <<"%">>, r.text))
    IN  IF fault = "store"
        THEN [raised |-> TRUE, error |-> "OperationalError", results |-> <<>>]
        ELSE [raised |-> FALSE, error |-> "",
              results |-> [i \in 1..Len(rows) |->
                              [start_time |-> rows[i].start_time,
                               end_time   |-> rows[i].end_time,
                               text       |-> rows[i].text,
                               confidence |-> rows[i].confidence]]]

\* SELECT start_time, end_time, text, confidence FROM transcripts
\* WHERE video_id = ? AND text LIKE '%' || query || '%' ORDER BY start_time.
\* The function has no try: an error of the store is raised to the caller.
search_transcript(table, video_id, query, fault) ==
    LET hits == SelectSeq(RowsOf(table, video_id),
                    LAMBDA r : LikeMatch(<<"%">> \o query \o <<"%">>, r.text))
        rows == OrderByStart(hits)
    IN  IF fault = "store"
        THEN [raised |-> TRUE, error |-> "OperationalError", results |-> <<>>]
        ELSE [raised |-> FALSE, error |-> "",
              results |-> [i \in 1..Len(rows) |->
                              [start_time |-> rows[i].start_time,
                               end_time   |-> rows[i].end_time,
                               text       |-> rows[i].text,
                               confidence |-> rows[i].confidence]]]

\* the query strings callers pass
Queries == {<<>>, <<"a">>, <<"B">>, <<"z">>, <<"_">>, <<"%", "b">>}

SearchFaults == {"none", "store"}

----------------------------------------------------------------------------
(* The calls *)

NoCall == [op |-> "none", video_id |-> None, success |-> TRUE, error |-> "",
           fault |-> "none", old |-> <<>>, data |-> Nothing, audio |-> "none"]

\* now is what datetime.now() reads during the call.
Upload(video_path, video_id, now, fault) ==
    LET r == upload_video(videos, vfiles, video_path, video_id, now, fault)
    IN  /\ videos' = r.videos
        /\ vfiles' = r.vfiles
        /\ last' = [op |-> "upload", video_id |-> r.video_id,
                    success |-> r.success, error |-> r.error, fault |-> fault,
                    old |-> videos, data |-> r.data, audio |-> "none",
                    generated |-> video_id = None]
        /\ UNCHANGED <<storage, whisper_model, transcripts, scenes, frames, artifacts,
                       conn, lock, reader>>

Transcribe(video_id, result, fault) ==
    LET r == transcribe_video(whisper_model, transcripts, artifacts, vfiles,
                              video_id, result, fault)
    IN  /\ transcripts' = r.transcripts
        /\ artifacts' = r.artifacts
        /\ last' = [op |-> "transcribe", video_id |-> video_id,
                    success |-> r.success, error |-> r.error, fault |-> fault,
                    old |-> transcripts, data |-> r.data, audio |-> r.audio]
        /\ UNCHANGED <<storage, whisper_model, videos, scenes, vfiles, frames,
                       conn, lock, reader>>

Detect(video_id, scene_list, fault, failing) ==
    LET r == detect_scenes(scenes, frames, vfiles, video_id, scene_list,
                           fault, failing)
    IN  /\ (fault = "keyframe") = (failing >= 0)
        /\ failing < Len(scene_list)
        /\ scenes' = r.scenes
        /\ frames' = r.frames
        /\ last' = [op |-> "detect_scenes", video_id |-> video_id,
                    success |-> r.success, error |-> r.error, fault |-> fault,
                    old |-> scenes, data |-> r.data, audio |-> "none",
                    scene_list |-> scene_list]
        /\ UNCHANGED <<storage, whisper_model, videos, transcripts, vfiles, artifacts,
                       conn, lock, reader>>

\* a get_video_info that stores an empty row for an id it does not find
GetInfoOrCreate(video_id) ==
    LET info == get_video_info(videos, video_id)
    IN  /\ last' = [op |-> "get_info", video_id |-> video_id,
                    success |-> info # Nothing, error |-> "", fault |-> "none",
                    old |-> videos, data |-> info, audio |-> "none"]
        /\ videos' = IF info # Nothing THEN videos
                     ELSE _save_video_to_db(videos, video_id,
                              [filename |-> Mp4Name(video_id), duration |-> 0,
                               fps |-> 0, width |-> 0, height |-> 0])
        /\ UNCHANGED <<storage, whisper_model, transcripts, scenes, vfiles,
                       frames, artifacts, conn, lock, reader>>

GetInfo(video_id) ==
    LET info == get_video_info(videos, video_id)
    IN  /\ last' = [op |-> "get_info", video_id |-> video_id,
                    success |-> info # Nothing, error |-> "", fault |-> "none",
                    old |-> videos, data |-> info, audio |-> "none"]
        /\ UNCHANGED <<storage, whisper_model, videos, transcripts, scenes, vfiles,
                       frames, artifacts, conn, lock, reader>>

Search(video_id, query, fault) ==
    LET r == search_transcript(transcripts, video_id, query, fault)
    IN  /\ last' = [op |-> "search", video_id |-> video_id,
                    success |-> ~r.raised, error |-> r.error, fault |-> fault,
                    old |-> transcripts, data |-> r.results, audio |-> "none",
                    query |-> query]
        /\ UNCHANGED <<storage, whisper_model, videos, transcripts, scenes, vfiles,
                       frames, artifacts, conn, lock, reader>>

----------------------------------------------------------------------------
(* LocalVideoAgent (backend/director/agents/local_video_agent.py): run and *)
(* its handlers, on the state st of the processor.  env holds what the     *)
(* environment decides during the call.                                    *)

\* video_path is not given
NoPath == <<>>

Store ==
    [videos |-> videos, transcripts |-> transcripts, scenes |-> scenes,
     vfiles |-> vfiles, frames |-> frames, artifacts |-> artifacts]

\* raise ValueError(...) / raise Exception(...) in a handler
Raised(st, called, error) ==
    [raised |-> TRUE, st |-> st, called |-> called, success |-> FALSE,
     status |-> "", error |-> error]

\* return AgentResponse(status=AgentStatus.SUCCESS, ...)
Responded(st) ==
    [raised |-> FALSE, st |-> st, called |-> TRUE, success |-> TRUE,
     status |-> "SUCCESS", error |-> ""]

\* `if not x`: the parameter was left out (None) or is the empty string
Unset(x) == x \in {None, ""}

\* an upload that hands whatever path it got to the processor
_handle_upload_unchecked(st, video_path, video_id, env) ==
    LET result == upload_video(st.videos, st.vfiles, video_path,
                               video_id, env.now, env.fault)
        after == [st EXCEPT !.videos = result.videos,
                            !.vfiles = result.vfiles]
    IN  IF result.success THEN Responded(after)
        ELSE Raised(after, TRUE, result.error)

_handle_upload(st, video_path, video_id, env) ==
    IF video_path = NoPath
    THEN Raised(st, FALSE, "Video path is required for upload")
    ELSE LET result == upload_video(st.videos, st.vfiles, video_path,
                                    video_id, env.now, env.fault)
             after == [st EXCEPT !.videos = result.videos,
                                 !.vfiles = result.vfiles]
         IN  IF result.success THEN Responded(after)
             ELSE Raised(after, TRUE, result.error)

\* a transcription that also discards the scenes of the video
_handle_transcribe_resets_scenes(model, st, video_id, env) ==
    IF Unset(video_id)
    THEN Raised(st, FALSE, "Video ID is required for transcription")
    ELSE LET result == transcribe_video(model, st.transcripts, st.artifacts,
                           st.vfiles, video_id, env.result, env.fault)
             after == [st EXCEPT !.transcripts = result.transcripts,
                                 !.artifacts = result.artifacts,
                                 !.scenes = DeleteWhere(st.scenes, video_id)]
         IN  IF result.success THEN Responded(after)
             ELSE Raised(after, TRUE, result.error)

_handle_transcribe(model, st, video_id, env) ==
    IF Unset(video_id)
    THEN Raised(st, FALSE, "Video ID is required for transcription")
    ELSE LET result == transcribe_video(model, st.transcripts, st.artifacts,
                           st.vfiles, video_id, env.result, env.fault)
             after == [st EXCEPT !.transcripts = result.transcripts,
                                 !.artifacts = result.artifacts]
         IN  IF result.success THEN Responded(after)
             ELSE Raised(after, TRUE, result.error)

\* a scene detection that answers SUCCESS whatever detect_scenes reported
_handle_detect_scenes_swallowing(st, video_id, env) ==
    IF Unset(video_id)
    THEN Raised(st, FALSE, "Video ID is required for scene detection")
    ELSE LET result == detect_scenes(st.scenes, st.frames, st.vfiles,
                           video_id, env.scene_list, env.fault, env.failing)
             after == [st EXCEPT !.scenes = result.scenes,
                                 !.frames = result.frames]
         IN  Responded(after)

_handle_detect_scenes(st, video_id, env) ==
    IF Unset(video_id)
    THEN Raised(st, FALSE, "Video ID is required for scene detection")
    ELSE LET result == detect_scenes(st.scenes, st.frames, st.vfiles,
                           video_id, env.scene_list, env.fault, env.failing)
             after == [st EXCEPT !.scenes = result.scenes,
                                 !.frames = result.frames]
         IN  IF result.success THEN Responded(after)
             ELSE Raised(after, TRUE, result.error)

\* An empty result list is a success ("No matches found").
_handle_search(st, video_id, query, env) ==
    IF Unset(video_id) THEN Raised(st, FALSE, "Video ID is required for search")
    ELSE IF query = <<>> THEN Raised(st, FALSE, "Query is required for search")
    ELSE LET result == search_transcript(st.transcripts, video_id, query,
                                         env.fault)
         IN  IF result.raised THEN Raised(st, TRUE, result.error)
             ELSE Responded(st)

\* get_info that answers SUCCESS whatever get_video_info returned
_handle_get_info_unchecked(st, video_id) ==
    IF Unset(video_id) THEN Raised(st, FALSE, "Video ID is required to get info")
    ELSE Responded(st)

_handle_get_info(st, video_id) ==
    IF Unset(video_id) THEN Raised(st, FALSE, "Video ID is required to get info")
    ELSE LET video_info == get_video_info(st.videos, video_id)
         IN  IF video_info # Nothing THEN Responded(st)
             ELSE Raised(st, TRUE, "Video not found")

\* the if / elif chain of run
Dispatch(model, st, action, video_path, video_id, query, env) ==
    IF action = "upload" THEN _handle_upload(st, video_path, video_id, env)
    ELSE IF action = "transcribe"
        THEN _handle_transcribe(model, st, video_id, env)
    ELSE IF action = "detect_scenes"
        THEN _handle_detect_scenes(st, video_id, env)
    ELSE IF action = "search" THEN _handle_search(st, video_id, query, env)
    ELSE IF action = "get_info" THEN _handle_get_info(st, video_id)
    ELSE Raised(st, FALSE, "Unknown action")

\* run without its try: what a handler raises reaches the caller
run_uncaught(model, st, action, video_path, video_id, query, env) ==
    LET h == Dispatch(model, st, action, video_path, video_id, query, env)
    IN  IF h.raised THEN [h EXCEPT !.status = "RAISED"] ELSE h

\* try: the handler; except Exception: AgentResponse(status=ERROR, ...)
run(model, st, action, video_path, video_id, query, env) ==
    LET h == Dispatch(model, st, action, video_path, video_id, query, env)
    IN  IF h.raised THEN [h EXCEPT !.status = "ERROR"] ELSE h

Actions == {"upload", "transcribe", "detect_scenes", "search", "get_info",
            "rename"}

\* the failures the environment can cause during an action
FaultsOf(action) ==
    IF action = "upload" THEN UploadFaults
    ELSE IF action = "transcribe" THEN TranscribeFaults
    ELSE IF action = "detect_scenes" THEN DetectFaults
    ELSE IF action = "search" THEN SearchFaults
    ELSE {"none"}

\* What the engine and the detector return in the calls made by the agent.
AgentResults == {e \in EngineResults : e.text \in {0, 1}}

AgentSceneLists == {<<>>, ScenesCutAt({})}

Envs(action) ==
    { [now |-> 0, fault |-> f, result |-> e, scene_list |-> l, failing |-> k] :
        f \in FaultsOf(action),
        e \in IF action = "transcribe" THEN AgentResults
              ELSE {CHOOSE x \in AgentResults : x.segments = <<>>},
        l \in IF action = "detect_scenes" THEN AgentSceneLists ELSE {<<>>},
        k \in IF action = "detect_scenes" THEN {-1, 0} ELSE {-1} }

\* what the processor method called by the handler of an action returned:
\* its "success" and its "error" (the three actions that report both)
Reported(model, st, action, video_path, video_id, env) ==
    LET result ==
            IF action = "upload"
                THEN upload_video(st.videos, st.vfiles, video_path, video_id,
                                  env.now, env.fault)
            ELSE IF action = "transcribe"
                THEN transcribe_video(model, st.transcripts, st.artifacts,
                         st.vfiles, video_id, env.result, env.fault)
            ELSE detect_scenes(st.scenes, st.frames, st.vfiles, video_id,
                               env.scene_list, env.fault, env.failing)
    IN  IF action \in {"upload", "transcribe", "detect_scenes"}
        THEN [success |-> result.success, error |-> result.error]
        ELSE Nothing

Run(action, video_path, video_id, query, env) ==
    LET r == run(whisper_model, Store, action, video_path, video_id, query, env)
    IN  /\ (env.fault = "keyframe") = (env.failing >= 0)
        /\ env.failing < Len(env.scene_list)
        /\ videos' = r.st.videos
        /\ transcripts' = r.st.transcripts
        /\ scenes' = r.st.scenes
        /\ vfiles' = r.st.vfiles
        /\ frames' = r.st.frames
        /\ artifacts' = r.st.artifacts
        /\ last' = [op |-> "run", action |-> action, video_id |-> video_id,
                    video_path |-> video_path,
                    status |-> r.status, error |-> r.error,
                    called |-> r.called,
                    result |-> IF r.called
                               THEN Reported(whisper_model, Store, action,
                                             video_path, video_id, env)
                               ELSE Nothing]
        /\ UNCHANGED <<storage, whisper_model, conn, lock, reader>>

\* processor = LocalVideoProcessor(storage_path), on a root that may hold
\* the directories, the index and files of an earlier processor.
Construct(loaded) ==
    LET r == __init__(storage, [videos |-> videos, transcripts |-> transcripts,
                                scenes |-> scenes], loaded)
    IN  /\ storage' = r.storage
        /\ whisper_model' = r.whisper_model
        /\ videos' = r.tables.videos
        /\ transcripts' = r.tables.transcripts
        /\ scenes' = r.tables.scenes
        /\ last' = [op |-> "init", video_id |-> None, success |-> TRUE,
                    error |-> "", before |-> storage]
        /\ UNCHANGED <<vfiles, frames, artifacts, conn, lock, reader>>

----------------------------------------------------------------------------
(* One replace, statement by statement.  _save_transcript_to_db and         *)
(* _save_scenes_to_db each open their own connection, run the DELETE and    *)
(* the INSERTs on it and commit once at the end.                            *)

Conns == {1, 2}
OneConn == {1}

Remove(dir, name) == [n \in DOMAIN dir \ {name} |-> dir[n]]

Committed(table) == IF table = "transcripts" THEN transcripts ELSE scenes

WriteTable(table, rows) ==
    IF table = "transcripts"
    THEN transcripts' = rows /\ UNCHANGED scenes
    ELSE scenes' = rows /\ UNCHANGED transcripts

\* isolation_level=None: every statement is committed as it runs.
ExecuteAutocommit(committed, changed) == changed

\* What the other connections see once cursor.execute has run a DELETE or
\* an INSERT: connect() leaves isolation_level at its default, so the
\* statement runs inside an open transaction and changes nothing for them.
Execute(committed, changed) == committed

\* the complete set of rows a replace with data is to leave for the video
NewRows(table, video_id, data) ==
    IF table = "transcripts" THEN InsertSegments(<<>>, video_id, data)
    ELSE InsertScenes(<<>>, video_id, data)

\* cursor.execute("INSERT ...") of either table
InsertInto(table, rows, video_id, item) ==
    IF table = "transcripts" THEN InsertSegment(rows, video_id, item)
    ELSE InsertScene(rows, video_id, item)

\* conn = sqlite3.connect(self.db_path); cursor = conn.cursor()
Connect(c, table, video_id, data) ==
    /\ c \notin DOMAIN conn
    /\ conn' = Put(conn, c, [pc |-> "connected", table |-> table,
                             video_id |-> video_id, data |-> data, i |-> 0,
                             old |-> <<>>, view |-> <<>>])
    /\ UNCHANGED <<storage, whisper_model, videos, transcripts, scenes, vfiles, frames,
                   artifacts, last, lock, reader>>

\* cursor.execute("DELETE ...") begins the transaction and takes the write
\* lock of the database file.
ExecDelete(c) ==
    /\ c \in DOMAIN conn
    /\ conn[c].pc = "connected"
    /\ lock = 0
    /\ LET t == conn[c].table
           changed == DeleteWhere(Committed(t), conn[c].video_id)
       IN  /\ conn' = [conn EXCEPT ![c].pc = "inserting",
                                   ![c].old = RowsOf(Committed(t), conn[c].video_id),
                                   ![c].view = changed]
           /\ WriteTable(t, Execute(Committed(t), changed))
    /\ lock' = c
    /\ UNCHANGED <<storage, whisper_model, videos, vfiles, frames, artifacts, last,
                   reader>>

\* the same statement while another connection holds the write lock:
\* sqlite3.OperationalError (database is locked); the connection is dropped.
ExecDeleteLocked(c) ==
    /\ c \in DOMAIN conn
    /\ conn[c].pc = "connected"
    /\ lock # 0
    /\ conn' = Remove(conn, c)
    /\ last' = [op |-> "locked", table |-> conn[c].table,
                video_id |-> conn[c].video_id,
                rows |-> RowsOf(Committed(conn[c].table), conn[c].video_id)]
    /\ UNCHANGED <<storage, whisper_model, videos, transcripts, scenes, vfiles, frames,
                   artifacts, lock, reader>>

\* one pass of the loop: cursor.execute("INSERT ...")
ExecInsert(c) ==
    /\ c \in DOMAIN conn
    /\ conn[c].pc = "inserting"
    /\ conn[c].i < Len(conn[c].data)
    /\ LET t == conn[c].table
           changed == InsertInto(t, conn[c].view, conn[c].video_id,
                                 conn[c].data[conn[c].i + 1])
       IN  /\ conn' = [conn EXCEPT ![c].i = @ + 1, ![c].view = changed]
           /\ WriteTable(t, Execute(Committed(t), changed))
    /\ UNCHANGED <<storage, whisper_model, videos, vfiles, frames, artifacts, last,
                   lock, reader>>

\* conn.commit(); conn.close()
Commit(c) ==
    /\ c \in DOMAIN conn
    /\ conn[c].pc = "inserting"
    /\ conn[c].i = Len(conn[c].data)
    /\ WriteTable(conn[c].table, conn[c].view)
    /\ conn' = Remove(conn, c)
    /\ lock' = 0
    /\ last' = [op |-> "commit", table |-> conn[c].table,
                video_id |-> conn[c].video_id,
                rows |-> NewRows(conn[c].table, conn[c].video_id, conn[c].data)]
    /\ UNCHANGED <<storage, whisper_model, videos, vfiles, frames, artifacts, reader>>

\* A statement raises after the DELETE: the function is left without
\* commit(), the connection is closed with its transaction rolled back.
Raise(c) ==
    /\ c \in DOMAIN conn
    /\ conn[c].pc = "inserting"
    /\ conn' = Remove(conn, c)
    /\ lock' = 0
    /\ last' = [op |-> "raise", table |-> conn[c].table,
                video_id |-> conn[c].video_id, rows |-> conn[c].old]
    /\ UNCHANGED <<storage, whisper_model, videos, transcripts, scenes, vfiles, frames,
                   artifacts, reader>>

\* The process dies with a replace past its DELETE: every connection is
\* gone and the journal rolls the open transaction back.
Crash ==
    /\ lock # 0
    /\ conn' = <<>>
    /\ lock' = 0
    /\ last' = [op |-> "crash", table |-> conn[lock].table,
                video_id |-> conn[lock].video_id, rows |-> conn[lock].old]
    /\ UNCHANGED <<storage, whisper_model, videos, transcripts, scenes, vfiles, frames,
                   artifacts, reader>>

\* A SELECT on a connection of its own: it reads the committed rows.
Read(table, video_id) ==
    /\ reader' = [table |-> table, video_id |-> video_id,
                  rows |-> RowsOf(Committed(table), video_id)]
    /\ UNCHANGED <<storage, whisper_model, videos, transcripts, scenes, vfiles, frames,
                   artifacts, last, conn, lock>>

\* the scenes_data detect_scenes gathers for a scene list
ScenesData(video_id, scene_list) ==
    [n \in 1..Len(scene_list) |->
        [scene_number |-> n - 1, start_time |-> scene_list[n][1],
         end_time |-> scene_list[n][2],
         frame_path |-> FramePath(video_id, n - 1)]]

\* The state after LocalVideoProcessor(): the directories and the tables
\* exist and are empty; load_model has succeeded or failed.
Init ==
    /\ storage = Storage
    /\ whisper_model \in BOOLEAN
    /\ videos = <<>>
    /\ transcripts = <<>>
    /\ scenes = <<>>
    /\ vfiles = <<>>
    /\ frames = <<>>
    /\ artifacts = <<>>
    /\ last = NoCall
    /\ conn = <<>>
    /\ lock = 0
    /\ reader = Nothing

----------------------------------------------------------------------------
(* Specifications *)

\* the ids callers pass
VideoIds == {"v1", "v2"}
OneId == {"v1"}

UploadCall(ids, faults) ==
    \E p \in Paths, v \in ids, now \in 0..MaxClock, f \in faults :
        Upload(p, v, now, f)

TranscribeCall(ids, faults) ==
    \E v \in ids, e \in EngineResults, f \in faults : Transcribe(v, e, f)

DetectCall(ids, faults) ==
    \E v \in ids, l \in SceneLists, f \in faults, k \in -1..(MaxScenes - 1) :
        Detect(v, l, f, k)

GetInfoCall(ids) == \E v \in ids : GetInfo(v)

\* The whole processor, one call at a time.
Next ==
    \/ UploadCall(OneId, UploadFaults)
    \/ TranscribeCall(OneId, TranscribeFaults)
    \/ DetectCall(OneId, DetectFaults)
    \/ GetInfoCall(OneId)

Spec == Init /\ [][Next]_vars

\* Uploads and metadata lookups on two ids.
NextUpload ==
    \/ UploadCall(VideoIds, UploadFaults)
    \/ GetInfoCall(VideoIds)

SpecUpload == Init /\ [][NextUpload]_vars

\* Uploads and transcriptions of one id.
NextTranscribe ==
    \/ UploadCall(OneId, UploadFaults)
    \/ TranscribeCall(OneId, TranscribeFaults)

SpecTranscribe == Init /\ [][NextTranscribe]_vars

\* Uploads and scene detections of one id.
NextScenes ==
    \/ UploadCall(OneId, UploadFaults)
    \/ DetectCall(OneId, DetectFaults)

SpecScenes == Init /\ [][NextScenes]_vars

\* The runs in which no external call is made to fail: a call fails only
\* for want of its input file or of the speech model.
NextNoFault ==
    \/ UploadCall(OneId, {"none"})
    \/ TranscribeCall(OneId, {"none"})
    \/ DetectCall(OneId, {"none"})

SpecNoFault == Init /\ [][NextNoFault]_vars

ConnectCall(conns, ids) ==
    \/ \E c \in conns, v \in ids, e \in EngineResults :
            Connect(c, "transcripts", v, TranscriptData(e))
    \/ \E c \in conns, v \in ids, l \in SceneLists :
            Connect(c, "scenes", v, ScenesData(v, l))

ReadCall(ids) == \E t \in {"transcripts", "scenes"}, v \in ids : Read(t, v)

\* Replaces of the transcript and of the scenes of one id on one connection
\* at a time, with a concurrent reader and crashes.
NextTxn ==
    \/ ConnectCall(OneConn, OneId)
    \/ \E c \in OneConn : ExecDelete(c)
    \/ \E c \in OneConn : ExecInsert(c)
    \/ \E c \in OneConn : Commit(c)
    \/ \E c \in OneConn : Raise(c)
    \/ Crash
    \/ ReadCall(OneId)

SpecTxn == Init /\ [][NextTxn]_vars

\* Replaces of the transcript and of the scenes of one id on two connections
\* at once: the second writer waits for the write lock or gives up.
NextTxn2 ==
    \/ ConnectCall(Conns, OneId)
    \/ \E c \in Conns : ExecDelete(c)
    \/ \E c \in Conns : ExecDeleteLocked(c)
    \/ \E c \in Conns : ExecInsert(c)
    \/ \E c \in Conns : Commit(c)
    \/ \E c \in Conns : Raise(c)

SpecTxn2 == Init /\ [][NextTxn2]_vars

SearchCall(ids, faults) ==
    \E v \in ids, q \in Queries, f \in faults : Search(v, q, f)

\* Uploads, transcriptions and transcript searches of one id.
NextSearch ==
    \/ UploadCall(OneId, {"none", "store"})
    \/ TranscribeCall(OneId, {"none"})
    \/ SearchCall(OneId, SearchFaults)

SpecSearch == Init /\ [][NextSearch]_vars

\* the ids upload_video can generate
GeneratedIds == {GenId(p, now) : p \in Paths, now \in 0..MaxClock}

\* Uploads that leave the id to upload_video, and reads of the ids it makes.
NextIds ==
    \/ UploadCall({None}, UploadFaults)
    \/ GetInfoCall(GeneratedIds)

SpecIds == Init /\ [][NextIds]_vars

\* Calls on two ids in any order, each succeeding or failing at a step that
\* leaves something behind.
NextTwoIds ==
    \/ \E v \in VideoIds, f \in {"none", "convert_partial"} :
            Upload(PathA, v, 0, f)
    \/ \E v \in VideoIds, f \in {"none", "artifact"} :
            Transcribe(v, CHOOSE e \in EngineResults : e.text = 1, f)
    \/ \E v \in VideoIds, k \in {-1, 0} :
            Detect(v, ScenesCutAt({}), IF k >= 0 THEN "keyframe" ELSE "none", k)

SpecTwoIds == Init /\ [][NextTwoIds]_vars

\* The root before any processor was made on it: nothing, or the root with
\* some of its entries, all of them empty.
InitRoot ==
    /\ storage \in {e \in SUBSET Storage : e # {} => "storage_path" \in e}
    /\ whisper_model = FALSE
    /\ videos = <<>>
    /\ transcripts = <<>>
    /\ scenes = <<>>
    /\ vfiles = <<>>
    /\ frames = <<>>
    /\ artifacts = <<>>
    /\ last = NoCall
    /\ conn = <<>>
    /\ lock = 0
    /\ reader = Nothing

\* Processors made on the same root, one after the other, and the calls on
\* them.
NextConstruct ==
    \/ \E loaded \in BOOLEAN : Construct(loaded)
    \/ /\ storage = Storage
       /\ \/ \E p \in {PathA, PathB} : Upload(p, "v1", 0, "none")
          \/ \E e \in AgentResults, f \in TranscribeFaults :
                Transcribe("v1", e, f)
          \/ \E l \in AgentSceneLists : Detect("v1", l, "none", -1)

SpecConstruct == InitRoot /\ [][NextConstruct]_vars

\* Uploads, transcriptions and scene detections of one id, and the queries
\* on it and on an id that was never uploaded.
NextQuery ==
    \/ UploadCall(OneId, {"none"})
    \/ TranscribeCall(OneId, {"none"})
    \/ DetectCall(OneId, {"none"})
    \/ SearchCall(VideoIds, SearchFaults)
    \/ GetInfoCall(VideoIds)

SpecQuery == Init /\ [][NextQuery]_vars

\* Uploads that succeed and scene detections that succeed or fail, on one id.
NextRerun ==
    \/ UploadCall(OneId, {"none"})
    \/ DetectCall(OneId, DetectFaults)

SpecRerun == Init /\ [][NextRerun]_vars

RunCall(ids) ==
    \/ \E p \in {PathA, NoPath}, v \in ids :
        \E env \in Envs("upload") : Run("upload", p, v, <<>>, env)
    \/ \E a \in Actions \ {"upload"}, v \in ids \cup {None, ""},
          q \in {<<>>, <<"a">>} :
        \E env \in Envs(a) : Run(a, PathA, v, q, env)

\* The actions of the agent on one id.
NextAgent == RunCall(OneId)

SpecAgent == Init /\ [][NextAgent]_vars

----------------------------------------------------------------------------
(* Properties *)

Call(op) == last.op = op
Failed(op) == last.op = op /\ ~last.success
Succeeded(op) == last.op = op /\ last.success

\* the rows a replace with list L is to leave: L, each item with the video id
RowsFor(video_id, L) == [i \in 1..Len(L) |-> [video_id |-> video_id] @@ L[i]]

HasVideoRow(video_id) == FetchVideo(videos, video_id) # Nothing

\* C1: a transcribe_video call that returns failure leaves the transcript
\* rows of the video as they were before the call.
C1_FailedTranscribeKeepsTranscript ==
    Failed("transcribe") =>
        RowsOf(transcripts, last.video_id) = RowsOf(last.old, last.video_id)

\* C2: after a successful replace of the transcript or of the scenes of a
\* video with list L, the rows stored for the video are exactly the rows of
\* L, in order, with no row of an earlier replace and no duplicate.
C2_ReplaceLeavesExactlyTheList ==
    /\ Succeeded("transcribe") =>
           RowsOf(transcripts, last.video_id) = RowsFor(last.video_id, last.data)
    /\ Succeeded("detect_scenes") =>
           RowsOf(scenes, last.video_id) = RowsFor(last.video_id, last.data)

\* C2 witness: a transcription and a scene detection have each replaced a
\* non-empty earlier set by a different one.
C2_Witness ==
    /\ Succeeded("transcribe")
    /\ RowsOf(last.old, last.video_id) # <<>>
    /\ RowsOf(last.old, last.video_id) # RowsOf(transcripts, last.video_id)
    /\ RowsOf(transcripts, last.video_id) # <<>>
    /\ RowsOf(scenes, last.video_id) # <<>>

InFlight == {c \in DOMAIN conn : conn[c].pc = "inserting"}

\* C3: while a replace is past its DELETE the visible rows of the video are
\* the complete old set; after a crash or an exception they still are; after
\* the commit they are the complete new set; the visible rows change in no
\* other step, and a reader gets the visible rows.
C3_ReplaceAllOrNothing ==
    /\ [](\A c \in InFlight :
            RowsOf(Committed(conn[c].table), conn[c].video_id) = conn[c].old)
    /\ [](last.op \in {"commit", "raise", "crash"} =>
            RowsOf(Committed(last.table), last.video_id) = last.rows)
    /\ [][/\ (transcripts' # transcripts \/ scenes' # scenes) =>
                 (last'.op = "commit" /\ InFlight # {} /\ InFlight' = {})
          /\ reader' # reader =>
                 /\ reader'.rows = RowsOf(Committed(reader'.table), reader'.video_id)
                 /\ \A c \in InFlight :
                        (conn[c].table = reader'.table
                            /\ conn[c].video_id = reader'.video_id)
                        => reader'.rows = conn[c].old]_vars

\* C3 witness: the process crashed in a replace of a non-empty set, past its
\* DELETE, and the old set is what a reader got afterwards.
C3_Witness ==
    /\ last.op = "crash"
    /\ last.rows # <<>>
    /\ reader # Nothing
    /\ reader.table = last.table
    /\ reader.rows = last.rows

VideoRows(table, video_id) == SelectSeq(table, LAMBDA r : r.id = video_id)

\* C4: after a successful upload the store holds one row for the id and
\* get_video_info returns the metadata that upload wrote; no other call
\* changes what is stored for the id.
C4_GetInfoReturnsLastUpsert ==
    /\ [](Succeeded("upload") =>
            /\ Len(VideoRows(videos, last.video_id)) = 1
            /\ get_video_info(videos, last.video_id) =
                   [id |-> last.video_id] @@ last.data)
    /\ [][\A id \in VideoIds :
            ~(last'.op = "upload" /\ last'.success /\ last'.video_id = id)
            => VideoRows(videos', id) = VideoRows(videos, id)]_vars

\* C4 witness: a re-upload of an id wrote other metadata than the row held.
C4_Witness ==
    /\ Succeeded("upload")
    /\ VideoRows(last.old, last.video_id) # <<>>
    /\ VideoRows(last.old, last.video_id) # VideoRows(videos, last.video_id)
    /\ Len(videos) = 2

\* C5: no scratch audio file of a transcribe_video call is left on disk when
\* the call has returned.
C5_ScratchAudioRemoved == Call("transcribe") => last.audio # "left"

\* C6: a failed upload_video leaves the videos table as it was.
C6_FailedUploadKeepsVideos == Failed("upload") => videos = last.old

\* C6 witness: an upload failed at the store, after the normalized file was
\* written, for an id that has a row.
C6_Witness ==
    /\ Failed("upload")
    /\ last.fault = "store"
    /\ HasVideoRow(last.video_id)
    /\ _get_video_info(vfiles, last.video_id).width #
           FetchVideo(videos, last.video_id).width

\* C7: a detect_scenes call in which the detector or one keyframe extraction
\* fails returns failure and leaves the scene rows as they were, and every
\* committed scene row has its keyframe image on disk.
C7_KeyframeFailureAbortsBatch ==
    /\ (Call("detect_scenes") /\ last.fault \in {"detect", "keyframe"}) =>
           ~last.success
    /\ Failed("detect_scenes") => scenes = last.old
    /\ \A i \in 1..Len(scenes) : Exists(frames, scenes[i].frame_path)

\* C7 witness: the extraction of a keyframe failed in a run on a video that
\* has committed scenes.
C7_Witness ==
    /\ Failed("detect_scenes")
    /\ last.fault = "keyframe"
    /\ last.error = "CalledProcessError"
    /\ scenes # <<>>

KeyframesOf(video_id) == {p \in DOMAIN frames : p[1] = video_id}

\* C8: after a successful detect_scenes the keyframe files of the video on
\* disk are exactly the files its scene rows reference.
C8_NoOrphanedKeyframes ==
    Succeeded("detect_scenes") =>
        KeyframesOf(last.video_id) =
            {scenes[i].frame_path : i \in {j \in 1..Len(scenes) :
                                            scenes[j].video_id = last.video_id}}

\* C9: every transcript row and every scene row has a video_id for which a
\* video row exists.
C9_ReferentialIntegrity ==
    /\ \A i \in 1..Len(transcripts) : HasVideoRow(transcripts[i].video_id)
    /\ \A i \in 1..Len(scenes) : HasVideoRow(scenes[i].video_id)

\* C10: a replace of the transcript of an id without video row fails with
\* NotFound and inserts no segment row.
C10_ReplaceWithoutVideoRowFails ==
    (/\ Call("transcribe")
     /\ whisper_model
     /\ Exists(vfiles, last.video_id)
     /\ last.fault \in {"none", "artifact"}
     /\ ~HasVideoRow(last.video_id))
    => (/\ ~last.success
        /\ last.error = "NotFound"
        /\ RowsOf(transcripts, last.video_id) = RowsOf(last.old, last.video_id))

\* the stored row as search_transcript returns it
Hit(row) == [start_time |-> row.start_time, end_time |-> row.end_time,
             text |-> row.text, confidence |-> row.confidence]

\* text contains query as a literal substring, with or without case folding
Contains(text, query, folding) ==
    \E i \in 1..(Len(text) - Len(query) + 1) :
        \A j \in 1..Len(query) :
            IF folding THEN Fold(text[i + j - 1]) = Fold(query[j])
            ELSE text[i + j - 1] = query[j]

SameItems(a, b) ==
    /\ Len(a) = Len(b)
    /\ \A i \in 1..Len(a) :
          Cardinality({j \in 1..Len(a) : a[j] = a[i]}) =
          Cardinality({j \in 1..Len(b) : b[j] = a[i]})

LiteralMatches(video_id, query, folding) ==
    LET rows == SelectSeq(RowsOf(transcripts, video_id),
                          LAMBDA r : Contains(r.text, query, folding))
    IN  [i \in 1..Len(rows) |-> Hit(rows[i])]

\* C11: search_transcript returns the stored segments of the video whose text
\* contains the query as a literal substring, under one case policy, and
\* nothing else.
C11_SearchReturnsLiteralMatches ==
    Succeeded("search") =>
        \E folding \in BOOLEAN :
            SameItems(last.data,
                      LiteralMatches(last.video_id, last.query, folding))

\* C12 as claimed: each segment search_transcript returns starts strictly
\* later than the one before it.
C12_SearchStrictlyOrdered ==
    Succeeded("search") =>
        \A i \in 2..Len(last.data) :
            last.data[i].start_time > last.data[i - 1].start_time

\* C12: each segment search_transcript returns starts no earlier than the one
\* before it, whatever the order the segments were stored in.
C12_SearchOrderedByStart ==
    Succeeded("search") =>
        \A i \in 2..Len(last.data) :
            last.data[i].start_time >= last.data[i - 1].start_time

\* C12 witness: a search returned two segments that are stored in descending
\* order of start time.
C12_Witness ==
    /\ Succeeded("search")
    /\ Len(last.data) = 2
    /\ Len(RowsOf(transcripts, last.video_id)) = 2
    /\ RowsOf(transcripts, last.video_id)[1].start_time >
           RowsOf(transcripts, last.video_id)[2].start_time

\* C13: search_transcript with an empty query is rejected with
\* InvalidArgument and returns no segment list.
C13_EmptyQueryRejected ==
    (Call("search") /\ last.query = <<>>) =>
        (~last.success /\ last.error = "InvalidArgument" /\ last.data = <<>>)

\* C14: search_transcript for an id that has no video row fails with
\* NotFound.
C14_SearchUnknownIdFails ==
    (Call("search") /\ last.fault = "none" /\ ~HasVideoRow(last.video_id)) =>
        (~last.success /\ last.error = "NotFound")


RunOf(action) == last.op = "run" /\ last.action = action

\* C15: get_info for an id that has no video row (no upload of the id ever
\* succeeded) finds no record in get_video_info and the action answers with
\* an ERROR response saying the video was not found, never with SUCCESS.
C15_GetInfoUnknownIdIsError ==
    (RunOf("get_info") /\ ~Unset(last.video_id) /\ ~HasVideoRow(last.video_id))
        => /\ get_video_info(videos, last.video_id) = Nothing
           /\ last.status = "ERROR"
           /\ last.error = "Video not found"

\* get_info fails for an id whose only upload failed after writing its file
C15_Witness ==
    /\ RunOf("get_info")
    /\ ~Unset(last.video_id)
    /\ ~HasVideoRow(last.video_id)
    /\ DOMAIN vfiles # {}
    /\ last.status = "ERROR"


\* C16: after a successful detect_scenes the scenes returned and the scene
\* rows of the video are as many as the boundary pairs the detector returned,
\* numbered 0..n-1 in the detector's order with the detector's start and end
\* times; with no boundary pair the call succeeds, returns no scene and the
\* video has no scene row.
C16_ScenesFollowDetector ==
    Succeeded("detect_scenes") =>
        LET n    == Len(last.scene_list)
            rows == RowsOf(scenes, last.video_id)
        IN  /\ Len(last.data) = n
            /\ rows = RowsFor(last.video_id, last.data)
            /\ \A i \in 1..n :
                /\ last.data[i].scene_number = i - 1
                /\ last.data[i].start_time = last.scene_list[i][1]
                /\ last.data[i].end_time = last.scene_list[i][2]
            /\ (n = 0 => rows = <<>>)

\* a detection that finds no boundary succeeds on a video that had scenes
C16_Witness ==
    /\ Succeeded("detect_scenes")
    /\ last.scene_list = <<>>
    /\ Len(RowsOf(last.old, last.video_id)) = MaxScenes
    /\ RowsOf(scenes, last.video_id) = <<>>


\* C17: after a successful upload that replaces the video of an id by another
\* file, no transcript search for the id returns a segment and the id has no
\* scene row: what was derived from the previous file is gone from the id.
C17_ReuploadDropsDerivedRows ==
    (/\ Succeeded("upload")
     /\ FetchVideo(last.old, last.video_id) # Nothing
     /\ FetchVideo(last.old, last.video_id) # FetchVideo(videos, last.video_id))
        => /\ \A q \in Queries :
                search_transcript(transcripts, last.video_id, q,
                                  "none").results = <<>>
           /\ RowsOf(scenes, last.video_id) = <<>>


\* C18: whatever the action name, the parameters given or left out and the
\* failure of the processor or of an engine, run returns a response whose
\* status is SUCCESS or ERROR (an ERROR carries the message of what was
\* raised); nothing raised in a handler reaches the caller of run.
C18_RunAlwaysResponds ==
    last.op = "run" =>
        /\ last.status \in {"SUCCESS", "ERROR"}
        /\ (last.status = "ERROR") = (last.error # "")

\* search_transcript, which catches nothing itself, raises inside run
C18_Witness ==
    /\ RunOf("search")
    /\ last.status = "ERROR"
    /\ last.error = "OperationalError"


\* C19: an upload that is given no id and succeeds gets an id that no
\* earlier upload was stored under: before the call the id has no video row,
\* so the upload overwrites the row and the file of no other upload.
C19_GeneratedIdIsFresh ==
    (Succeeded("upload") /\ last.generated) =>
        FetchVideo(last.old, last.video_id) = Nothing


\* the committed rows of a table after the step
CommittedNext(table) == IF table = "transcripts" THEN transcripts' ELSE scenes'

\* C20: with two connections replacing the rows of the same video at once,
\* at most one is past its DELETE at any time, and every step that changes
\* the visible rows of a table is the commit of one writer that leaves the
\* video with exactly the full set of that writer and the other table as it
\* was: the visible set is always the full set of the last writer to commit,
\* never a union or a part of two sets.
C20_LastWriterWins ==
    /\ [](Cardinality(InFlight) <= 1)
    /\ [][(transcripts' # transcripts \/ scenes' # scenes) =>
            \E c \in InFlight :
                /\ c \notin DOMAIN conn'
                /\ RowsOf(CommittedNext(conn[c].table), conn[c].video_id) =
                       NewRows(conn[c].table, conn[c].video_id, conn[c].data)
                /\ \A t \in {"transcripts", "scenes"} \ {conn[c].table} :
                       CommittedNext(t) = Committed(t)]_vars

\* the second writer met the write lock while the first, on the same video
\* and table, was between its INSERTs, and the old rows were still visible
C20_Witness ==
    /\ last.op = "locked"
    /\ lock # 0
    /\ conn[lock].table = last.table
    /\ conn[lock].video_id = last.video_id
    /\ conn[lock].i > 0
    /\ last.rows # <<>>
    /\ RowsOf(Committed(last.table), last.video_id) = last.rows


\* what the store and the disk hold for one id
Holding(video_id) ==
    [row      |-> FetchVideo(videos, video_id),
     segments |-> RowsOf(transcripts, video_id),
     scenes   |-> RowsOf(scenes, video_id),
     file     |-> IF Exists(vfiles, video_id) THEN vfiles[video_id] ELSE Nothing,
     frames   |-> [p \in KeyframesOf(video_id) |-> frames[p]],
     artifact |-> IF Exists(artifacts, video_id) THEN artifacts[video_id]
                  ELSE Nothing]

C22_ConstructIsIdempotent ==
    /\ [](last.op = "init" => storage = Storage)
    /\ [][last'.op = "init" =>
            /\ storage \subseteq storage'
            /\ <<videos', transcripts', scenes'>> = <<videos, transcripts, scenes>>
            /\ <<vfiles', frames', artifacts'>> = <<vfiles, frames, artifacts>>]_vars

\* a processor was made again on a root that holds a video with its
\* transcript, scenes, keyframes and artifact
C22_Witness ==
    /\ last.op = "init"
    /\ last.before = Storage
    /\ videos # <<>>
    /\ transcripts # <<>>
    /\ scenes # <<>>
    /\ DOMAIN vfiles # {}
    /\ DOMAIN frames # {}
    /\ DOMAIN artifacts # {}


\* what the environment decides in a call that nothing makes fail
Unfailing(result, scene_list) ==
    [now |-> 0, fault |-> "none", result |-> result,
     scene_list |-> scene_list, failing |-> -1]

\* the store after a transcription and a scene detection of the video
TranscribeThenDetect(video_id, env) ==
    _handle_detect_scenes(
        _handle_transcribe(whisper_model, Store, video_id, env).st,
        video_id, env).st

\* the store after the same two calls in the other order
DetectThenTranscribe(video_id, env) ==
    _handle_transcribe(whisper_model,
        _handle_detect_scenes(Store, video_id, env).st, video_id, env).st

\* C23: a transcribe action leaves the video rows, the scene rows and the
\* keyframes as they were, a detect_scenes action leaves the video rows, the
\* transcript rows and the artifacts as they were, and from every state a
\* transcription followed by a scene detection leaves the store that the
\* scene detection followed by the transcription leaves.
C23_StagesIndependent ==
    /\ [][/\ last'.action = "transcribe" =>
                <<videos', scenes', vfiles', frames'>> =
                    <<videos, scenes, vfiles, frames>>
          /\ last'.action = "detect_scenes" =>
                <<videos', transcripts', vfiles', artifacts'>> =
                    <<videos, transcripts, vfiles, artifacts>>]_vars
    /\ [](\A v \in OneId, e \in AgentResults, l \in AgentSceneLists :
            TranscribeThenDetect(v, Unfailing(e, l)) =
                DetectThenTranscribe(v, Unfailing(e, l)))

\* the video is complete: uploaded, transcribed, and its scenes detected last
C23_Witness ==
    /\ RunOf("detect_scenes")
    /\ last.status = "SUCCESS"
    /\ HasVideoRow(last.video_id)
    /\ RowsOf(transcripts, last.video_id) # <<>>
    /\ RowsOf(scenes, last.video_id) # <<>>


\* C24: with no speech model loaded a transcribe_video call fails with the
\* error "Whisper model not available", which no call made with a model
\* loaded returns; the call extracts no audio, leaves no scratch file and
\* leaves the transcript rows and the transcript artifacts as they were.
C24_EngineUnavailable ==
    /\ [](Call("transcribe") =>
            (last.error = "Whisper model not available") = ~whisper_model)
    /\ [][(last'.op = "transcribe" /\ ~whisper_model) =>
            /\ ~last'.success
            /\ last'.audio = "none"
            /\ transcripts' = transcripts
            /\ artifacts' = artifacts]_vars

\* a processor made without its model on a root that holds a transcript
\* refuses to transcribe
C24_Witness ==
    /\ Failed("transcribe")
    /\ ~whisper_model
    /\ Exists(vfiles, last.video_id)
    /\ RowsOf(transcripts, last.video_id) # <<>>
    /\ Exists(artifacts, last.video_id)


\* C25: when run calls upload_video, transcribe_video or detect_scenes it
\* answers SUCCESS exactly when the method reported success, and when the
\* method reported a failure the ERROR response carries the method's error.
C25_NoFailureSwallowed ==
    (last.op = "run" /\ last.called
        /\ last.action \in {"upload", "transcribe", "detect_scenes"}) =>
        /\ (last.status = "SUCCESS") = last.result.success
        /\ ~last.result.success =>
              (last.status = "ERROR" /\ last.error = last.result.error)

\* a scene detection that failed at a keyframe is answered with that error
C25_Witness ==
    /\ RunOf("detect_scenes")
    /\ last.called
    /\ ~last.result.success
    /\ last.error = "CalledProcessError"
    /\ DOMAIN frames = {}


\* the required parameter of the action of the last call is missing or empty
RequiredMissing(call) ==
    \/ call.action = "upload" /\ call.video_path = NoPath
    \/ /\ call.action \in {"transcribe", "detect_scenes", "search", "get_info"}
       /\ call.video_id \in {None, ""}

\* C26: an action whose required parameter is missing or empty (upload
\* without video_path; transcribe, detect_scenes, search or get_info without
\* video_id) is answered with an ERROR response without any call of the
\* processor, and leaves the tables and the files as they were.
C26_MissingParameterRejected ==
    [][(last'.op = "run" /\ RequiredMissing(last')) =>
        /\ last'.status = "ERROR"
        /\ ~last'.called
        /\ Store' = Store]_vars

\* a transcribe action with an empty video id on a store that holds a video
C26_Witness ==
    /\ RunOf("transcribe")
    /\ last.video_id = ""
    /\ last.error = "Video ID is required for transcription"
    /\ videos # <<>>


\* C27: a search_transcript or get_video_info call, whatever it returns,
\* leaves every video, transcript and scene row and every file and directory
\* under the storage root as it was.
C27_QueriesReadOnly ==
    [][last'.op \in {"search", "get_info"} =>
        (Store' = Store /\ storage' = storage)]_vars

\* get_video_info found nothing for an id while the store held the rows and
\* files of another id
C27_Witness ==
    /\ last.op = "get_info"
    /\ last.data = Nothing
    /\ videos # <<>>
    /\ transcripts # <<>>
    /\ scenes # <<>>
    /\ DOMAIN frames # {}


\* C28: the keyframe file of every committed scene row exists and holds the
\* frame at the row's start time, and a detect_scenes call that fails leaves
\* the image of every committed scene row as it was.
C28_KeyframesMatchCommittedRows ==
    /\ [](\A i \in 1..Len(scenes) :
            /\ Exists(frames, scenes[i].frame_path)
            /\ frames[scenes[i].frame_path].at = scenes[i].start_time)
    /\ [][Failed("detect_scenes")' =>
            \A i \in 1..Len(scenes') :
                frames'[scenes'[i].frame_path] =
                    frames[scenes'[i].frame_path]]_vars


\* the metadata columns of a video row
Metadata(row) ==
    [filename |-> row.filename, duration |-> row.duration, fps |-> row.fps,
     width |-> row.width, height |-> row.height]

\* C29: after an upload_video call, successful or failed, on an id that had a
\* video row before the call, the row of the id describes the normalized
\* file that is on disk for the id.
C29_RowDescribesFile ==
    (Call("upload") /\ FetchVideo(last.old, last.video_id) # Nothing) =>
        /\ Exists(vfiles, last.video_id)
        /\ Metadata(FetchVideo(videos, last.video_id)) =
               _get_video_info(vfiles, last.video_id)

====
